---- MODULE Spec2Model ----
(***************************************************************************)
(* A model of aiosolr (src/aiosolr.py): the Client facade over Solr's      *)
(* handlers, its request dispatch (_get/_post/setup), the error extraction *)
(* on non-200 responses, the data-import polling loop and the query        *)
(* sanitizer clean().                                                      *)
(*                                                                         *)
(* Python values are modelled as strings (NoneVal is None, FalseVal is     *)
(* False), dictionaries as functions over their keys, and text as the      *)
(* sequence of its characters.  A coroutine runs without interruption from *)
(* one suspension point to the next (asyncio is cooperative), so each      *)
(* action covers the code between two awaits that really suspend: the      *)
(* network request and asyncio.sleep.  `await self.setup()` does not       *)
(* suspend: setup() contains no await.                                     *)
(***************************************************************************)
EXTENDS Integers, Sequences, FiniteSets, TLC

VARIABLES
    session,            \* Client.session per client: 0 is None, n > 0 the n-th ClientSession made
    getDefaultHeaders,  \* the one dict object behind `headers={}` of Client._get
    gcodDefaultHeaders, \* the one dict object behind `headers={}` of _get_check_ok_deserialize
    call,               \* per task: the facade call it runs, the request it sent, its outcome
    poll,               \* the frame of check_dataimport_status
    clean_pc,           \* how many times clean() was applied to `query`
    query,              \* the text handed to clean()
    cleaned,            \* the result of the last clean()
    cleaned_once,       \* the result of the first clean()
    kwargs,             \* the mapping handed to _kwargs_to_query_string, in insertion order
    query_string,       \* what _kwargs_to_query_string returned
    qs_pc               \* whether _kwargs_to_query_string has run

vars == <<session, getDefaultHeaders, gcodDefaultHeaders, call, poll,
          clean_pc, query, cleaned, cleaned_once, kwargs, query_string, qs_pc>>

opsVars == <<session, getDefaultHeaders, gcodDefaultHeaders, call>>
cleanVars == <<clean_pc, query, cleaned, cleaned_once>>
qsVars == <<kwargs, query_string, qs_pc>>

------------------------------------------------------------------------------
(* Bounds of the model *)

MaxTasks == 3          \* concurrently running facade calls
MaxRetriesBound == 3   \* largest max_retries handed to check_dataimport_status
MaxLen == 6            \* longest enumerated query text
MaxParams == 2         \* most parameters in one kwargs mapping
MaxListLen == 2        \* longest list-valued parameter

------------------------------------------------------------------------------
(* Python values *)

NoneVal == "None"
FalseVal == "False"
NoKey == "<absent>"     \* a keyword that is not in kwargs

EmptyDict == [k \in {} |-> ""]
DictSet(d, k, v) == [x \in (DOMAIN d) \cup {k} |-> IF x = k THEN v ELSE d[x]]

Tasks == 1..MaxTasks

(* Two clients of one process: "a" was constructed with collection="c1",   *)
(* "b" with the default collection="" (stored as None).                    *)
Clients == {"a", "b"}
ClientCollection(c) == IF c = "a" THEN "c1" ELSE NoneVal

(* The per-call `collection` keyword: absent, or present with a value.     *)
CollectionKw == {NoKey, "", "c2"}

Ops == {"query", "get", "update", "commit", "ping", "suggestions", "dataimport"}

(* The one argument of each operation that its control flow depends on.    *)
ArgsOf(op) ==
    CASE op = "ping"        -> {"status", "reboot"}          \* action
      [] op = "suggestions" -> {"query", "build", "neither"} \* which of query/build is given
      [] op = "update"      -> {"json", "xml"}               \* data: dict/list, or text
      [] OTHER              -> {"-"}

------------------------------------------------------------------------------
(* HTTP responses: a status and a body text.  Each body is named, and      *)
(* JsonLoads gives what json.loads makes of it.                            *)

Statuses == {200, 204, 500}

Bodies == {"envelope", "envelope_nomsg", "doc", "suggest", "list", "text"}

(* json.loads(resp.body): ok = FALSE when it raises.                       *)
JsonLoads(b) ==
    CASE b = "envelope"       -> [ok |-> TRUE, dict |-> TRUE, keys |-> {"error"},
                                  errkeys |-> {"msg", "trace"}]
      [] b = "envelope_nomsg" -> [ok |-> TRUE, dict |-> TRUE, keys |-> {"error"},
                                  errkeys |-> {"trace"}]
      [] b = "doc"            -> [ok |-> TRUE, dict |-> TRUE, keys |-> {"response"},
                                  errkeys |-> {}]
      [] b = "suggest"        -> [ok |-> TRUE, dict |-> TRUE, keys |-> {"suggest"},
                                  errkeys |-> {}]
      [] b = "list"           -> [ok |-> TRUE, dict |-> FALSE, keys |-> {},
                                  errkeys |-> {}]
      [] OTHER                -> [ok |-> FALSE, dict |-> FALSE, keys |-> {},
                                  errkeys |-> {}]

(* The values found in a body's error envelope.                            *)
EnvelopeMsg(b) == "msg of " \o b
EnvelopeTrace(b) == "trace of " \o b

(* The Response object built from a body, when it ends up as a message.    *)
ResponseObject(b) == "Response(" \o b \o ")"

------------------------------------------------------------------------------
(* Outcomes of a call: `how` tells a raised exception from a returned value *)

NoOutcome == [how |-> "none", kind |-> "none", value |-> NoneVal,
              message |-> NoneVal, trace |-> NoneVal, args |-> <<>>]

(* SolrError.__init__(self, message, *args, trace=None, **kwargs): the     *)
(* exception object, with the positional extras kept in args only.         *)
SolrError(message, args, trace) ==
    [how |-> "raised", kind |-> "SolrError", value |-> NoneVal,
     message |-> message, trace |-> trace, args |-> <<message>> \o args]

Raise(exc) == [how |-> "raised", kind |-> exc, value |-> NoneVal,
               message |-> NoneVal, trace |-> NoneVal, args |-> <<>>]

Return(kind, value) == [how |-> "returned", kind |-> kind, value |-> value,
                        message |-> NoneVal, trace |-> NoneVal, args |-> <<>>]

(* `return SolrError(...)`: the exception object handed back as a value.   *)
ReturnError(e) == [e EXCEPT !.how = "returned"]

------------------------------------------------------------------------------
(* Client helpers *)

(* Client._deserialize: json.loads of the body, wrapped in a Response that *)
(* keeps the HTTP status; a body that is no JSON raises.                   *)
Deserialize(st, b) ==
    IF JsonLoads(b).ok THEN Return("Response", b) ELSE Raise("JSONDecodeError")

(* The error branch shared by _get_check_ok_deserialize, query and update: *)
(*   error = self._deserialize(response)                                   *)
(*   msg   = error.data.get("error", {}).get("msg", error)                 *)
(*   trace = error.data.get("error", {}).get("trace")                      *)
(* and, on any exception, msg = str(response.body), trace left None.       *)
ExtractMsg(b) ==
    LET d == JsonLoads(b) IN
    IF ~d.ok \/ ~d.dict THEN b
    ELSE IF "error" \in d.keys /\ "msg" \in d.errkeys THEN EnvelopeMsg(b)
    ELSE ResponseObject(b)

ExtractTrace(b) ==
    LET d == JsonLoads(b) IN
    IF ~d.ok \/ ~d.dict THEN NoneVal
    ELSE IF "error" \in d.keys /\ "trace" \in d.errkeys THEN EnvelopeTrace(b)
    ELSE NoneVal

(* `raise SolrError(msg, trace)`: trace is the second positional argument. *)
RaiseSolrError(b) == SolrError(ExtractMsg(b), <<ExtractTrace(b)>>, NoneVal)

(* status != 200 raises, otherwise the body is deserialized.               *)
CheckOkDeserialize(st, b) ==
    IF st # 200 THEN RaiseSolrError(b) ELSE Deserialize(st, b)

(* _get_collection looking at the client's default before the keyword.     *)
GetCollection_DefaultFirst(c, kw) ==
    IF ClientCollection(c) # NoneVal
    THEN [ok |-> TRUE, value |-> ClientCollection(c)]
    ELSE IF kw # NoKey THEN [ok |-> TRUE, value |-> kw]
    ELSE [ok |-> FALSE, value |-> NoneVal]

(* Client._get_collection *)
GetCollection(c, kw) ==
    IF kw # NoKey THEN [ok |-> TRUE, value |-> kw]
    ELSE IF ClientCollection(c) # NoneVal
         THEN [ok |-> TRUE, value |-> ClientCollection(c)]
         ELSE [ok |-> FALSE, value |-> NoneVal]

CollectionError == SolrError("Collection name not provided.", <<>>, NoneVal)

(* What an operation does before it resolves the collection.               *)
PreCheck(op, arg) ==
    CASE op = "ping" /\ arg \notin {"status", "enable", "disable"}
            -> Raise("AssertionError")
      [] op = "suggestions" /\ arg = "neither"
            -> ReturnError(SolrError("query or build required for suggestions.",
                                     <<>>, NoneVal))
      [] OTHER -> NoOutcome

(* The first lines of Client._get on the dict it was handed, and the       *)
(* Content-Type it adds when there is a body: the dict after the call.     *)
GetHeaders(headers, hasBody) ==
    LET h == IF "Accept" \notin DOMAIN headers
             THEN DictSet(headers, "Accept", "application/json")
             ELSE headers
    IN IF hasBody THEN DictSet(h, "Content-Type", "application/json") ELSE h

(* Client._post with headers=None: a dict made for this call.              *)
PostHeaders(arg) ==
    IF arg = "json" THEN DictSet(EmptyDict, "Content-Type", "application/json")
    ELSE DictSet(EmptyDict, "Content-Type", "text/xml")

(* setup() called on every request, without the `if not self.session`.     *)
EnsureSession_Always(s) == s + 1

(* `if not self.session: await self.setup()`: the session after it.        *)
EnsureSession(s) == IF s = 0 THEN s + 1 ELSE s

(* query() sends its parameters as a JSON body ({"params": {"q": ...}} is  *)
(* never empty); every other GET is sent without one.                      *)
HasBody(op) == op = "query"

Method(op) == IF op = "update" THEN "POST" ELSE "GET"

(* Which headers dict the operation's _get call is handed: query and       *)
(* dataimport call _get without headers (its own default), the others go   *)
(* through _get_check_ok_deserialize, which passes its default on.         *)
UsesGetDefault(op) == op \in {"query", "dataimport"}
UsesGcodDefault(op) == op \in {"commit", "get", "ping", "suggestions"}

------------------------------------------------------------------------------
(* Facade calls *)

NoCall == [pc |-> "new", op |-> "-", client |-> "-", kw |-> NoKey, arg |-> "-",
           dispatched |-> FALSE, headers |-> EmptyDict, sess |-> 0,
           sessBefore |-> 0, coll |-> NoneVal, status |-> 0, body |-> "-",
           outcome |-> NoOutcome]

(* A call from its entry to its first suspension: the precondition, the    *)
(* collection, the headers, the session and the request handed to aiohttp. *)
Start(t, c, op, kw, arg) ==
    /\ call[t].pc # "req"
    /\ arg \in ArgsOf(op)
    /\ LET pre == PreCheck(op, arg)
           col == GetCollection(c, kw)
           base == [NoCall EXCEPT !.op = op, !.client = c, !.kw = kw, !.arg = arg,
                                  !.sessBefore = session[c], !.sess = session[c]]
           dict == IF UsesGetDefault(op) THEN getDefaultHeaders ELSE gcodDefaultHeaders
           sent == IF op = "update" THEN PostHeaders(arg)
                   ELSE GetHeaders(dict, HasBody(op))
       IN IF pre.how # "none"
          THEN /\ call' = [call EXCEPT ![t] = [base EXCEPT !.pc = "done", !.outcome = pre]]
               /\ UNCHANGED <<session, getDefaultHeaders, gcodDefaultHeaders>>
          ELSE IF ~col.ok
          THEN /\ call' = [call EXCEPT ![t] =
                              [base EXCEPT !.pc = "done", !.outcome = CollectionError]]
               /\ UNCHANGED <<session, getDefaultHeaders, gcodDefaultHeaders>>
          ELSE /\ session' = [session EXCEPT ![c] = EnsureSession(session[c])]
               /\ getDefaultHeaders' =
                     IF UsesGetDefault(op) THEN sent ELSE getDefaultHeaders
               /\ gcodDefaultHeaders' =
                     IF UsesGcodDefault(op) THEN sent ELSE gcodDefaultHeaders
               /\ call' = [call EXCEPT ![t] =
                              [base EXCEPT !.pc = "req", !.dispatched = TRUE,
                                           !.headers = sent, !.coll = col.value,
                                           !.sess = session'[c]]]
    /\ UNCHANGED <<poll, cleanVars, qsVars>>

(* What the operation makes of the response once the request completes.    *)
Handle(op, arg, st, b) ==
    CASE op = "dataimport" -> Deserialize(st, b)
      [] op = "suggestions" ->
            LET r == CheckOkDeserialize(st, b) IN
            IF r.how = "raised" \/ arg # "query" THEN r
            ELSE IF ~JsonLoads(b).dict THEN Raise("TypeError")
            ELSE IF "suggest" \notin JsonLoads(b).keys THEN Raise("KeyError")
            ELSE r
      [] OTHER -> CheckOkDeserialize(st, b)

(* The awaited request completes with status st and body b.                *)
Respond(t, st, b) ==
    /\ call[t].pc = "req"
    /\ call' = [call EXCEPT ![t].pc = "done", ![t].status = st, ![t].body = b,
                            ![t].outcome = Handle(call[t].op, call[t].arg, st, b)]
    /\ UNCHANGED <<session, getDefaultHeaders, gcodDefaultHeaders, poll, cleanVars, qsVars>>

------------------------------------------------------------------------------
(* check_dataimport_status *)

(* Inputs of the polling call *)
MaxRetriesArgs == 0..MaxRetriesBound
SleepIntervals == {1, 60}
PollCollectionKw == {NoKey, "c2"}

(* What the status endpoint answers: an HTTP status and one of these       *)
(* bodies; PollLoads gives data["status"] and data["statusMessages"] of    *)
(* the decoded body (NoKey: the key is missing, ok = FALSE: no JSON).      *)
PollStatuses == {200, 500}
PollBodies == {"idle", "busy", "idle_nomsgs", "nostatus", "text"}

PollLoads(b) ==
    CASE b = "idle"        -> [ok |-> TRUE, status |-> "idle", msgs |-> "messages"]
      [] b = "busy"        -> [ok |-> TRUE, status |-> "busy", msgs |-> "messages"]
      [] b = "idle_nomsgs" -> [ok |-> TRUE, status |-> "idle", msgs |-> NoKey]
      [] b = "nostatus"    -> [ok |-> TRUE, status |-> NoKey, msgs |-> NoKey]
      [] OTHER             -> [ok |-> FALSE, status |-> NoKey, msgs |-> NoKey]

NoResponse == [set |-> FALSE, status |-> 0, body |-> "-"]

(* The frame before the call.  requests and sleeps count the awaits        *)
(* performed; attempts, busy200, lastSeen, sawIdle and the cancel fields   *)
(* are history: what the endpoint answered and when the caller cancelled.  *)
NoPoll == [pc |-> "new", client |-> "-", collection |-> NoneVal,
           max_retries |-> 0, sleep_interval |-> 0,
           status |-> FalseVal, response_body |-> NoResponse, retries |-> 0,
           requests |-> 0, sleeps |-> 0, outcome |-> NoOutcome,
           attempts |-> 0, busy200 |-> 0, lastSeen |-> NoneVal, sawIdle |-> FALSE,
           cancelAt |-> "none", requestsAtCancel |-> 0, sleepsAtCancel |-> 0]

(* The tuple built at lines 320-327 and handed to SolrError as message.    *)
PollMessage(f) ==
    <<"Unable to verify dataimport success on %s after %s seconds and %s retries and status message %s!",
      f.collection, f.sleep_interval * f.retries, f.retries, f.status>>

(* Lines 312-329: after the loop.  The success branch only logs, so the    *)
(* coroutine ends without a return statement and the caller gets None.     *)
PollFinish(f) ==
    IF /\ f.response_body.set
       /\ f.response_body.status = 200
       /\ f.status # FalseVal
       /\ f.retries < f.max_retries
    THEN [f EXCEPT !.pc = "returned", !.outcome = Return("NoneType", NoneVal)]
    ELSE [f EXCEPT !.pc = "raised",
                   !.outcome = SolrError(PollMessage(f), <<>>, NoneVal)]

(* Line 297, the loop test: another request, or the code after the loop.   *)
PollLoop(f) ==
    IF f.status = FalseVal /\ f.retries < f.max_retries
    THEN [f EXCEPT !.pc = "req", !.requests = @ + 1]
    ELSE PollFinish(f)

(* Lines 309-310: count the retry and start the sleep.                     *)
PollRetry(f) == [f EXCEPT !.retries = @ + 1, !.pc = "sleep", !.sleeps = @ + 1]

(* The frame moves on to f; a request issued on the way is a _get without  *)
(* body or headers: it sets Accept on _get's default dict and makes the    *)
(* session when there is none.                                             *)
PollGoto(f) ==
    /\ poll' = f
    /\ IF f.pc = "req" /\ poll.pc # "req"
       THEN /\ session' = [session EXCEPT ![f.client] = EnsureSession(@)]
            /\ getDefaultHeaders' = GetHeaders(getDefaultHeaders, FALSE)
       ELSE UNCHANGED <<session, getDefaultHeaders>>
    /\ UNCHANGED <<gcodDefaultHeaders, call, cleanVars, qsVars>>

(* Lines 289-297: the call up to its first request.                        *)
PollStart(c, kw, mr, si) ==
    /\ poll.pc = "new"
    /\ LET col == GetCollection(c, kw)
           f == [poll EXCEPT !.client = c, !.collection = col.value,
                             !.max_retries = mr, !.sleep_interval = si]
       IN IF col.ok THEN PollGoto(PollLoop(f))
          ELSE PollGoto([f EXCEPT !.pc = "failed", !.outcome = CollectionError])

(* Lines 299-310 when the request completes with status st and body b.     *)
PollResponse(st, b) ==
    /\ poll.pc = "req"
    /\ LET d == PollLoads(b)
           seen == [poll EXCEPT !.attempts = @ + 1,
                        !.lastSeen = IF d.ok /\ d.status # NoKey THEN d.status ELSE @,
                        !.sawIdle = @ \/ (d.ok /\ d.status = "idle"),
                        !.busy200 = IF st = 200 /\ d.ok /\ d.status \notin {NoKey, "idle"}
                                    THEN @ + 1 ELSE @]
           got == [seen EXCEPT !.response_body = [set |-> TRUE, status |-> st, body |-> b]]
       IN IF ~d.ok THEN PollGoto(PollRetry(seen))               \* json.loads raises
          ELSE IF d.status = NoKey THEN PollGoto(PollRetry(got)) \* KeyError: 'status'
          ELSE IF d.status # "idle" THEN PollGoto(PollRetry(got))
          ELSE IF d.msgs = NoKey THEN PollGoto(PollRetry(got))   \* KeyError: 'statusMessages'
          ELSE PollGoto(PollFinish([got EXCEPT !.status = d.msgs]))  \* break

(* The request raises (connection refused, timeout): caught at line 305.   *)
PollRequestFails ==
    /\ poll.pc = "req"
    /\ PollGoto(PollRetry([poll EXCEPT !.attempts = @ + 1]))

(* The caller cancels the task while the request is in flight:             *)
(* CancelledError is raised at line 299, inside the try, and line 305      *)
(* catches BaseException.                                                  *)
PollCancelRequest ==
    /\ poll.pc = "req"
    /\ poll.cancelAt = "none"
    /\ PollGoto(PollRetry([poll EXCEPT !.attempts = @ + 1, !.cancelAt = "request",
                                       !.requestsAtCancel = poll.requests,
                                       !.sleepsAtCancel = poll.sleeps]))

(* asyncio.sleep(sleep_interval) returns.                                  *)
PollSleepDone ==
    /\ poll.pc = "sleep"
    /\ PollGoto(PollLoop(poll))

(* The caller cancels the task during the sleep: line 310 is outside the   *)
(* try, the CancelledError leaves the coroutine.                           *)
PollCancelSleep ==
    /\ poll.pc = "sleep"
    /\ poll.cancelAt = "none"
    /\ PollGoto([poll EXCEPT !.pc = "cancelled", !.outcome = Raise("CancelledError"),
                             !.cancelAt = "sleep",
                             !.requestsAtCancel = poll.requests,
                             !.sleepsAtCancel = poll.sleeps])

------------------------------------------------------------------------------
(* clean: text is the sequence of its characters *)

(* The characters of the default remove_chars class (line 340).            *)
RemoveChars == {"&", "|", "!", "(", ")", "{", "}", "[", "]", "^", "\"", "~",
                "?", "\\", ";"}

(* What \S does not match. *)
IsSpace(ch) == ch \in {" ", "\t", "\n", "\r"}

(* Whether pat occurs in q at position i. *)
MatchAt(q, i, pat) ==
    /\ i + Len(pat) - 1 <= Len(q)
    /\ \A k \in 1..Len(pat) : q[i + k - 1] = pat[k]

(* The first position at or after i that holds whitespace, or Len(q) + 1:  *)
(* where a greedy \S+ starting at i stops.                                 *)
RECURSIVE EndOfNonSpace(_, _)
EndOfNonSpace(q, i) ==
    IF i > Len(q) \/ IsSpace(q[i]) THEN i ELSE EndOfNonSpace(q, i + 1)

(* re.sub(r"http\S+", "", q) from position i on: every leftmost match of   *)
(* "http" followed by at least one non-space character is dropped, up to   *)
(* the next whitespace.                                                    *)
RECURSIVE SubHttpFrom(_, _)
SubHttpFrom(q, i) ==
    IF i > Len(q) THEN <<>>
    ELSE IF MatchAt(q, i, <<"h", "t", "t", "p">>)
            /\ i + 4 <= Len(q) /\ ~IsSpace(q[i + 4])
         THEN SubHttpFrom(q, EndOfNonSpace(q, i + 4))
         ELSE <<q[i]>> \o SubHttpFrom(q, i + 1)

SubHttp(q) == SubHttpFrom(q, 1)

(* re.sub(remove_chars, "", q): a character class, so a filter. *)
SubRemoveChars(q) == SelectSeq(q, LAMBDA ch : ch \notin RemoveChars)

(* str.replace(pat, rep) from position i on: one pass, left to right, over *)
(* non-overlapping occurrences; the result is not searched again.          *)
RECURSIVE ReplaceFrom(_, _, _, _)
ReplaceFrom(q, i, pat, rep) ==
    IF i > Len(q) THEN <<>>
    ELSE IF MatchAt(q, i, pat)
         THEN rep \o ReplaceFrom(q, i + Len(pat), pat, rep)
         ELSE <<q[i]>> \o ReplaceFrom(q, i + 1, pat, rep)

Replace(q, pat, rep) == ReplaceFrom(q, 1, pat, rep)

(* Lines 350-353: query.replace("*", "") and then query.replace("%2a", "") *)
RemoveWildcard(q) == Replace(Replace(q, <<"*">>, <<>>), <<"%", "2", "a">>, <<>>)

(* re.sub(escape_chars[0], escape_chars[1], q) with the default            *)
(* (":", r"\:"): the pattern is the one character, and the template's \:   *)
(* is no known escape, so it stands for itself.                            *)
EscapeChars(q) == Replace(q, <<":">>, <<"\\", ":">>)

(* bleach.clean(q, strip=True) on text that holds no "<", so no markup to  *)
(* strip: the serializer writes the text with & and > as entities.         *)
RECURSIVE BleachFrom(_, _)
BleachFrom(q, i) ==
    IF i > Len(q) THEN <<>>
    ELSE (CASE q[i] = ">" -> <<"&", "g", "t", ";">>
            [] q[i] = "&" -> <<"&", "a", "m", "p", ";">>
            [] OTHER      -> <<q[i]>>) \o BleachFrom(q, i + 1)

BleachClean(q) == BleachFrom(q, 1)

(* Client.clean with the given switches; max_len = 0 and urlencode = False *)
(* (the defaults) skip the last two steps.                                 *)
CleanWith(q, allow_html_tags, allow_http, allow_wildcard, escape) ==
    LET q1 == IF ~allow_http THEN SubHttp(q) ELSE q
        q2 == SubRemoveChars(q1)
        q3 == IF ~allow_wildcard THEN RemoveWildcard(q2) ELSE q2
        q4 == IF escape THEN EscapeChars(q3) ELSE q3
        q5 == IF ~allow_html_tags THEN BleachClean(q4) ELSE q4
    IN q5

(* clean(query): every option at its default. *)
Clean(q) == CleanWith(q, FALSE, FALSE, FALSE, TRUE)

(* The queries of tests/test_clean.py and what it expects of them. *)
PeaceSmoke == <<"p", "e", "a", "c", "e", "|", "s", "m", "o", "k", "e">>
PeaceSmokeExpected == <<"p", "e", "a", "c", "e", " ", "s", "m", "o", "k", "e">>
Quoted == <<"\"", "q", "u", "o", "t", "e", "d", "\"">>
QuotedExpected == <<"q", "u", "o", "t", "e", "d">>
LargeIntestines == <<"l", "a", "r", "g", "e", ":", "i", "n", "t", "e", "s", "t", "i", "n", "e", "s">>
TwoFilters == <<"q", "u", "e", "r", "y", "1", ":", "f", "i", "l", "t", "e", "r", "1", " ", "q", "u", "e", "r", "y", "2", ":", "f", "i", "l", "t", "e", "r", "2">>

TestQueries == {PeaceSmoke, Quoted, LargeIntestines, TwoFilters}

(* The enumerated queries: every text of at most MaxLen characters over    *)
(* each of these alphabets.                                                *)
Texts(alphabet) == UNION {[1..n -> alphabet] : n \in 0..MaxLen}

HttpAlphabet == {"h", "t", "p", ":", "|", " "}
EscapeAlphabet == {":", "\\", "a", "\"", " "}
WildcardAlphabet == {"%", "2", "a", "A", "*"}

Queries == TestQueries \cup Texts(HttpAlphabet) \cup Texts(EscapeAlphabet)
              \cup Texts(WildcardAlphabet)

(* clean(query) *)
CleanFirst ==
    /\ clean_pc = 0
    /\ cleaned' = Clean(query)
    /\ cleaned_once' = cleaned'
    /\ clean_pc' = 1
    /\ UNCHANGED <<query, opsVars, poll, qsVars>>

(* clean(clean(query)) *)
CleanAgain ==
    /\ clean_pc = 1
    /\ cleaned' = Clean(cleaned)
    /\ clean_pc' = 2
    /\ UNCHANGED <<query, cleaned_once, opsVars, poll, qsVars>>

------------------------------------------------------------------------------
(* _kwargs_to_query_string *)

(* A scalar is a bool, a str or an int; `text` is what it holds (a bool     *)
(* holds 1 or 0).  A parameter's value is a scalar or a list of scalars.    *)
PyTrue == [type |-> "bool", text |-> <<"1">>]
PyFalse == [type |-> "bool", text |-> <<"0">>]
Scalars == {PyTrue, PyFalse,
            [type |-> "str", text |-> <<"a", ":", "1">>],
            [type |-> "int", text |-> <<"1", "0">>]}

ScalarValue(x) == [list |-> FALSE, items |-> <<x>>]
ListValue(xs) == [list |-> TRUE, items |-> xs]

Values == {ScalarValue(x) : x \in Scalars}
             \cup {ListValue(xs) : xs \in UNION {[1..n -> Scalars] : n \in 0..MaxListLen}}

ParamNames == {"fq", "facet.field", "boost", "qf", "fl", "active"}

(* The characters of a parameter name. *)
NameText(name) ==
    CASE name = "fq"          -> <<"f", "q">>
      [] name = "facet.field" -> <<"f", "a", "c", "e", "t", ".", "f", "i", "e", "l", "d">>
      [] name = "boost"       -> <<"b", "o", "o", "s", "t">>
      [] name = "qf"          -> <<"q", "f">>
      [] name = "fl"          -> <<"f", "l">>
      [] OTHER                -> <<"a", "c", "t", "i", "v", "e">>

(* Every mapping of at most MaxParams parameters, as its items in          *)
(* insertion order.                                                        *)
KwargsSet ==
    UNION {{kw \in [1..n -> [param : ParamNames, value : Values]] :
               \A i, j \in 1..n : i # j => kw[i].param # kw[j].param}
           : n \in 0..MaxParams}

(* str(value) of a scalar: a bool prints as True or False. *)
PyStr(x) ==
    IF x.type = "bool"
    THEN (IF x = PyTrue THEN <<"T", "r", "u", "e">> ELSE <<"F", "a", "l", "s", "e">>)
    ELSE x.text

(* urllib.parse.quote_plus of one character: letters, digits and _.-~ stay, *)
(* a space becomes +, anything else its percent code.                      *)
QuoteChar(ch) ==
    CASE ch = " " -> <<"+">>
      [] ch = ":" -> <<"%", "3", "A">>
      [] ch = "*" -> <<"%", "2", "A">>
      [] ch = "&" -> <<"%", "2", "6">>
      [] ch = "=" -> <<"%", "3", "D">>
      [] OTHER    -> <<ch>>

RECURSIVE QuoteFrom(_, _)
QuoteFrom(t, i) ==
    IF i > Len(t) THEN <<>> ELSE QuoteChar(t[i]) \o QuoteFrom(t, i + 1)

(* urllib.parse.quote_plus(str(x), encoding="utf8") *)
QuotePlus(x) == QuoteFrom(PyStr(x), 1)

(* Lines 201-219, one of the three blocks: "&name=" and the quoted element *)
(* for every element of the list, from element i on.                       *)
RECURSIVE RepeatFrom(_, _, _)
RepeatFrom(name, xs, i) ==
    IF i > Len(xs) THEN <<>>
    ELSE <<"&">> \o NameText(name) \o <<"=">> \o QuotePlus(xs[i])
            \o RepeatFrom(name, xs, i + 1)

(* separator.join(clean_vals) from element i on. *)
RECURSIVE JoinFrom(_, _, _)
JoinFrom(xs, sep, i) ==
    IF i > Len(xs) THEN <<>>
    ELSE (IF i > 1 THEN <<sep>> ELSE <<>>) \o QuotePlus(xs[i]) \o JoinFrom(xs, sep, i + 1)

(* Lines 222-232: one remaining item of kwargs. *)
EncodeItem(item) ==
    LET head == <<"&">> \o NameText(item.param) \o <<"=">>
        x == item.value.items[1]
    IN IF item.value.list
       THEN head \o JoinFrom(item.value.items, IF item.param = "qf" THEN "+" ELSE ",", 1)
       ELSE IF x.type = "bool"
            THEN head \o (IF x = PyTrue THEN <<"t", "r", "u", "e">>
                                        ELSE <<"f", "a", "l", "s", "e">>)
            ELSE head \o QuotePlus(x)

RECURSIVE EncodeFrom(_, _)
EncodeFrom(kw, i) ==
    IF i > Len(kw) THEN <<>> ELSE EncodeItem(kw[i]) \o EncodeFrom(kw, i + 1)

(* `if name in kwargs and isinstance(kwargs.get(name), list)`: the block of *)
(* a repeated parameter, empty when kwargs has no list under that name.    *)
RepeatBlock(kw, name) ==
    LET hits == SelectSeq(kw, LAMBDA it : it.param = name /\ it.value.list)
    IN IF hits = <<>> THEN <<>> ELSE RepeatFrom(name, hits[1].value.items, 1)

Repeated == {"fq", "facet.field", "boost"}

(* kwargs after the three pops. *)
Remaining(kw) ==
    SelectSeq(kw, LAMBDA it : ~(it.param \in Repeated /\ it.value.list))

(* Client._kwargs_to_query_string *)
KwargsToQueryString(kw) ==
    RepeatBlock(kw, "fq") \o RepeatBlock(kw, "facet.field") \o RepeatBlock(kw, "boost")
        \o EncodeFrom(Remaining(kw), 1)

(* _kwargs_to_query_string(kwargs) *)
Encode ==
    /\ qs_pc = 0
    /\ query_string' = KwargsToQueryString(kwargs)
    /\ qs_pc' = 1
    /\ UNCHANGED <<kwargs, opsVars, poll, cleanVars>>

------------------------------------------------------------------------------
(* Specifications *)

InitOps ==
    /\ session = [c \in Clients |-> 0]
    /\ getDefaultHeaders = EmptyDict
    /\ gcodDefaultHeaders = EmptyDict
    /\ call = [t \in Tasks |-> NoCall]

InitClean ==
    /\ clean_pc = 0
    /\ query = <<>>
    /\ cleaned = <<>>
    /\ cleaned_once = <<>>

InitQs ==
    /\ kwargs = <<>>
    /\ query_string = <<>>
    /\ qs_pc = 0

Init == InitOps /\ poll = NoPoll /\ InitClean /\ InitQs

(* One caller issuing facade calls one after the other, against a server   *)
(* that may answer anything.                                               *)
Next ==
    \/ \E c \in Clients, op \in Ops, kw \in CollectionKw :
          \E arg \in ArgsOf(op) : Start(1, c, op, kw, arg)
    \/ \E st \in Statuses, b \in Bodies : Respond(1, st, b)

Spec == Init /\ [][Next]_vars

(* One polling call, its endpoint and a caller who may cancel it.          *)
NextPoll ==
    \/ \E c \in Clients, kw \in PollCollectionKw, mr \in MaxRetriesArgs,
          si \in SleepIntervals : PollStart(c, kw, mr, si)
    \/ \E st \in PollStatuses, b \in PollBodies : PollResponse(st, b)
    \/ PollRequestFails
    \/ PollCancelRequest
    \/ PollSleepDone
    \/ PollCancelSleep

SpecPoll == Init /\ [][NextPoll]_vars

(* Several tasks calling concurrently on the two clients, through _get     *)
(* (ping) and through _post (update), against a server that answers 200:   *)
(* every interleaving of the calls' suspension points.                     *)
NextConc ==
    \/ \E t \in Tasks, c \in Clients :
          \/ Start(t, c, "ping", "c2", "status")
          \/ Start(t, c, "update", "c2", "json")
    \/ \E t \in Tasks : Respond(t, 200, "doc")

SpecConc == Init /\ [][NextConc]_vars

(* clean() applied once and then again to its own result, for each of the  *)
(* enumerated queries.                                                     *)
InitCleanQueries ==
    /\ InitOps /\ poll = NoPoll
    /\ clean_pc = 0
    /\ query \in Queries
    /\ cleaned = <<>>
    /\ cleaned_once = <<>>
    /\ InitQs

NextClean == CleanFirst \/ CleanAgain

SpecClean == InitCleanQueries /\ [][NextClean]_vars

(* _kwargs_to_query_string applied to each of the enumerated mappings.     *)
InitKwargs ==
    /\ InitOps /\ poll = NoPoll /\ InitClean
    /\ kwargs \in KwargsSet
    /\ query_string = <<>>
    /\ qs_pc = 0

NextQs == Encode

SpecQs == InitKwargs /\ [][NextQs]_vars

------------------------------------------------------------------------------
(* Properties of the facade calls *)

Done(t) == call[t].pc = "done"
Answered(t) == Done(t) /\ call[t].dispatched

(* C3: every operation that dispatches a request turns a non-2xx status    *)
(* into a raised SolrError; none hands a result object back for it.        *)
C3_Non2xxRaisesSolrError ==
    \A t \in Tasks :
        (Answered(t) /\ call[t].status \notin 200..299)
            => (call[t].outcome.how = "raised" /\ call[t].outcome.kind = "SolrError")

(* C4: the SolrError raised for a non-success response has message = the   *)
(* envelope's msg (the whole decoded object when msg is absent) and        *)
(* trace = the envelope's trace; for a body that does not decode,          *)
(* message = the raw body and trace is absent.                             *)
C4_ErrorCarriesMsgAndTrace ==
    \A t \in Tasks :
        (Answered(t) /\ call[t].status # 200 /\ call[t].op # "dataimport")
            => LET b == call[t].body
                   d == JsonLoads(b)
                   e == call[t].outcome
               IN /\ e.how = "raised" /\ e.kind = "SolrError"
                  /\ (d.ok /\ "error" \in d.keys /\ "msg" \in d.errkeys)
                        => (e.message = EnvelopeMsg(b) /\ e.trace = EnvelopeTrace(b))
                  /\ (d.ok /\ "error" \in d.keys /\ "msg" \notin d.errkeys)
                        => (e.message = ResponseObject(b) /\ e.trace = EnvelopeTrace(b))
                  /\ ~d.ok => (e.message = b /\ e.trace = NoneVal)

(* The collection a call must use: its own keyword when it has one,        *)
(* otherwise the client's.                                                 *)
Resolved(t) ==
    IF call[t].kw # NoKey THEN call[t].kw ELSE ClientCollection(call[t].client)

NoCollection(t) ==
    call[t].kw = NoKey /\ ClientCollection(call[t].client) = NoneVal

C7_BodylessGetHasNoContentType ==
    \A t \in Tasks :
        (call[t].dispatched /\ Method(call[t].op) = "GET" /\ ~HasBody(call[t].op))
            => "Content-Type" \notin DOMAIN call[t].headers

(* C8: a client makes at most one session, and every request of the client *)
(* is sent on it.                                                          *)
C8_OneSharedSession ==
    \A c \in Clients :
        /\ session[c] <= 1
        /\ \A t \in Tasks :
              (call[t].dispatched /\ call[t].client = c)
                  => (call[t].sess = 1 /\ call[t].sess = session[c])

(* Three calls of one client are in flight at once, a _post among _gets,   *)
(* on the session the first of them made.                                  *)
C8_Witness ==
    \E t1, t2, t3 \in Tasks :
        /\ t1 # t2 /\ t1 # t3 /\ t2 # t3
        /\ call[t1].pc = "req" /\ call[t2].pc = "req" /\ call[t3].pc = "req"
        /\ call[t1].client = call[t2].client /\ call[t2].client = call[t3].client
        /\ call[t1].op = "update" /\ call[t2].op = "ping"
        /\ call[t1].sessBefore = 0 /\ call[t2].sessBefore = 1
        /\ call[t1].sess = call[t2].sess /\ call[t2].sess = call[t3].sess

------------------------------------------------------------------------------
(* Properties of check_dataimport_status *)

(* The last answer was HTTP 200 with status "idle" and its messages, and   *)
(* every attempt before it was answered HTTP 200 with another status.      *)
IdleAfterBusy ==
    /\ poll.response_body.set
    /\ poll.response_body.status = 200
    /\ poll.response_body.body = "idle"
    /\ poll.busy200 = poll.attempts - 1

(* C1: when attempts 1..k-1 are answered 200 with a non-idle status and    *)
(* attempt k with "idle", the call does not raise, hands the idle          *)
(* response's statusMessages to the caller, and has issued k requests and  *)
(* slept k-1 times.                                                        *)
C1_IdleReturnsStatusMessages ==
    IdleAfterBusy =>
        /\ poll.pc = "returned"
        /\ poll.outcome.how = "returned"
        /\ poll.outcome.value = PollLoads(poll.response_body.body).msgs
        /\ poll.requests = poll.attempts
        /\ poll.sleeps = poll.attempts - 1

(* C2: when no attempt observes "idle", the call issues max_retries        *)
(* requests and then raises a SolrError whose message carries the          *)
(* collection, sleep_interval x retries, the retry count and the last      *)
(* status seen.                                                            *)
C2_ExhaustionCarriesLastStatus ==
    (poll.pc \in {"returned", "raised"} /\ ~poll.sawIdle) =>
        /\ poll.pc = "raised"
        /\ poll.outcome.kind = "SolrError"
        /\ poll.requests = poll.max_retries
        /\ poll.outcome.message[2] = poll.collection
        /\ poll.outcome.message[3] = poll.sleep_interval * poll.max_retries
        /\ poll.outcome.message[4] = poll.max_retries
        /\ poll.lastSeen # NoneVal => poll.outcome.message[5] = poll.lastSeen

(* C6: once the caller has cancelled, during the request or during the     *)
(* sleep, the CancelledError has left the call and no request and no sleep *)
(* followed.                                                               *)
C6_CancelAbortsPromptly ==
    poll.cancelAt # "none" =>
        /\ poll.pc = "cancelled"
        /\ poll.outcome = Raise("CancelledError")
        /\ poll.requests = poll.requestsAtCancel
        /\ poll.sleeps = poll.sleepsAtCancel

(* C12: after a non-idle or failed attempt the loop sleeps only while the   *)
(* retry counter is still below max_retries, so a run that exhausts        *)
(* n = max_retries attempts has slept n-1 times when it raises.            *)
C12_NoSleepAfterLastAttempt ==
    /\ poll.pc = "sleep" => poll.retries < poll.max_retries
    /\ (poll.pc = "raised" /\ poll.max_retries >= 1
            /\ poll.retries = poll.max_retries)
          => poll.sleeps = poll.max_retries - 1

------------------------------------------------------------------------------
(* Properties of clean *)

HasColon(q) == \E i \in 1..Len(q) : q[i] = ":"

(* Every colon of q has exactly one backslash before it. *)
ColonsEscapedOnce(q) ==
    \A i \in 1..Len(q) :
        q[i] = ":" => /\ i > 1 /\ q[i - 1] = "\\"
                      /\ (i > 2 => q[i - 2] # "\\")

(* C9: clean("peace|smoke") is "peace smoke" and clean('"quoted"') is      *)
(* "quoted": a removed operator between two words leaves them separated.   *)
C9_OperatorBetweenWordsBecomesSpace ==
    clean_pc >= 1 =>
        /\ query = PeaceSmoke => cleaned_once = PeaceSmokeExpected
        /\ query = Quoted => cleaned_once = QuotedExpected

(* C10: for a query that holds a colon, every colon of clean(query) has    *)
(* exactly one backslash before it, and clean(clean(query)) is             *)
(* clean(query).                                                           *)
C10_ColonEscapedAndIdempotent ==
    HasColon(query) =>
        /\ clean_pc >= 1 => ColonsEscapedOnce(cleaned_once)
        /\ clean_pc = 2 => cleaned = cleaned_once

(* Whether pat occurs somewhere in q. *)
Contains(q, pat) == \E i \in 1..Len(q) : MatchAt(q, i, pat)

(* C13: with allow_wildcard false, clean's result holds no "*" and no      *)
(* percent-encoded wildcard, "%2a" or "%2A", also when the form only       *)
(* appears once other characters are removed.                              *)
C13_NoWildcardLeft ==
    clean_pc >= 1 =>
        /\ ~Contains(cleaned_once, <<"*">>)
        /\ ~Contains(cleaned_once, <<"%", "2", "a">>)
        /\ ~Contains(cleaned_once, <<"%", "2", "A">>)

------------------------------------------------------------------------------
(* Properties of _kwargs_to_query_string *)

(* C11: every boolean of the mapping, the value of a parameter or an       *)
(* element of a list-valued one, is written as true or false: the query    *)
(* string holds no True and no False, and a boolean parameter p reads      *)
(* &p=true or &p=false.                                                    *)
C11_BooleansLowercase ==
    qs_pc = 1 =>
        /\ ~Contains(query_string, <<"T", "r", "u", "e">>)
        /\ ~Contains(query_string, <<"F", "a", "l", "s", "e">>)
        /\ \A i \in 1..Len(kwargs) :
              (~kwargs[i].value.list /\ kwargs[i].value.items[1].type = "bool")
                 => Contains(query_string,
                       <<"&">> \o NameText(kwargs[i].param) \o <<"=">>
                          \o (IF kwargs[i].value.items[1] = PyTrue
                              THEN <<"t", "r", "u", "e">>
                              ELSE <<"f", "a", "l", "s", "e">>))

====
